---- MODULE Spec2Model ----
(***************************************************************************)
(* A model of nebula's delivery-safety layer and of the request lifecycle  *)
(* it protects:                                                            *)
(*   - utils.js: checkReceiver / getSafetyWrapper (tryReceiver, doEffect,  *)
(*     getEffect);                                                         *)
(*   - xml-http-request.mock.js: MockXMLHttpRequest and httpRequestor;     *)
(*   - server.mock.js: doRequest / doRequestHttp / doRequestHttps.         *)
(* JavaScript values are represented by strings; "undefined" stands for    *)
(* the value undefined.  A function call's outcome is a record holding the *)
(* state it leaves, whether it threw, and the value thrown or returned.    *)
(***************************************************************************)
EXTENDS Integers, Sequences, FiniteSets, TLC

VARIABLES
    receiver,    \* the receiver handed to getSafetyWrapper / to the requestor
    handle,      \* outcome of getSafetyWrapper: "none" | "returned" | "threw"
    sw,          \* the wrapper's closure (allowReceiver) and what it did so far
    callable,    \* the callable last returned by getEffect (effect, onError)
    lastCall,    \* the last wrapper operation: its inputs, prior state, outcome
    nops,        \* number of wrapper operations performed
    listener,    \* who listens to the request object: "none" | "requestor",
                 \* or an onreadystatechange handler that calls abort() when
                 \* it sees HEADERS_RECEIVED / LOADING: "abortsAtHeaders" |
                 \* "abortsAtLoading"
    xhr,         \* the MockXMLHttpRequest object's fields
    timers,      \* the timer queue: pending transport notifications, FIFO
    nextId,      \* the id the next setTimeout returns
    lastOp,      \* the last request operation: inputs, prior state, outcome
    xops,        \* number of request operations performed
    requestor,   \* the requestor httpRequestor(spec) returned: its spec,
                 \* whether it was invoked, the cancellor it returned
    history,     \* what the request object's caller did so far: the
                 \* setRequestHeader calls and the number of send() calls
                 \* that returned since the last open() that returned, what
                 \* last decided status (a response, or an abort / error),
                 \* and the readystatechange-at-DONE, load and error
                 \* notifications since the last send() that returned
    transport,   \* direct calls of the transport with a recording receiver:
                 \* the calls made, what the receiver was called with, and
                 \* the last step taken
    promise      \* a requestor made by usePromise: its promise, the pending
                 \* reaction jobs, and what the receiver was called with

swvars == <<receiver, handle, sw, callable, lastCall, nops>>

xhrvars == <<listener, xhr, timers, nextId, lastOp, xops, requestor, history,
             transport, promise>>

\* ------------------------------------------------------------------ bounds

\* wrapper operations per behaviour
MaxOps == 3

\* request operations (open, setRequestHeader, send, abort) per behaviour
MaxXhrOps == 4

\* calls of the cancellor a requestor returned, per behaviour
MaxCancels == 2

\* ------------------------------------------------------------ JS values

Undefined == "undefined"

\* values an effect may return
ReturnValues == {Undefined, "v1"}

\* values an effect may throw (throw undefined is legal JavaScript)
ThrownValues == {Undefined, "e1"}

\* the error a throwing receiver throws, and the one a throwing onError throws
ReceiverError == "receiver error"
OnErrorError == "onError error"

\* a Result: an absent key reads as undefined
Result(value, reason) == [value |-> value, reason |-> reason]

\* ---------------------------------------------------------- checkReceiver

\* A receiver as checkReceiver sees it (typeof, identity with
\* Function.prototype, length) plus what calling it does.
Receivers ==
    {[type |-> "function", isFunctionPrototype |-> FALSE, length |-> 1,
      behaviour |-> b] : b \in {"return", "throw"}}
    \cup {[type |-> "function", isFunctionPrototype |-> FALSE, length |-> n,
           behaviour |-> "return"] : n \in {0, 2}}
    \cup {[type |-> "function", isFunctionPrototype |-> TRUE, length |-> 0,
           behaviour |-> "return"],
          [type |-> "object", isFunctionPrototype |-> FALSE, length |-> 0,
           behaviour |-> "return"]}

ValidationError == "receivers must be functions of one argument"

\* mutant: the arity test is missing
checkReceiverNoArity(r) ==
    r.isFunctionPrototype \/ r.type # "function"

\* TRUE when checkReceiver(receiver) throws
checkReceiver(r) ==
    \/ r.isFunctionPrototype
    \/ r.type # "function"
    \/ r.length # 1

\* -------------------------------------------------------- getSafetyWrapper

NoThrow(s) == [sw |-> s, threw |-> FALSE, error |-> Undefined, value |-> Undefined]
Throw(s, e) == [sw |-> s, threw |-> TRUE, error |-> e, value |-> Undefined]
Return(s, v) == [sw |-> s, threw |-> FALSE, error |-> Undefined, value |-> v]

\* the closure right after getSafetyWrapper, with empty observation logs:
\* calls = the receiver's invocations, in order, each with the code path
\* that made it; effectRuns = executions of effect functions;
\* onErrorCalls = the errors handed to a caller-supplied onError.
NewWrapper ==
    [allowReceiver |-> TRUE, calls |-> <<>>, effectRuns |-> 0,
     onErrorCalls |-> <<>>]

\* tryReceiver(result); via names the code path that called it
tryReceiver(rcv, s, result, via) ==
    IF ~s.allowReceiver THEN NoThrow(s)
    ELSE IF checkReceiver(rcv) THEN Throw(s, ValidationError)
    ELSE LET s1 == [s EXCEPT !.calls = Append(@, [result |-> result, via |-> via])]
         IN  \* receiver(result) runs before allowReceiver = false
             IF rcv.behaviour = "throw" THEN Throw(s1, ReceiverError)
             ELSE NoThrow([s1 EXCEPT !.allowReceiver = FALSE])

\* An effect function: it may first deliver through the wrapper it is
\* handed (inner), then returns val or throws val.
Effects ==
    {[kind |-> "return", val |-> v, inner |-> FALSE] : v \in ReturnValues}
    \cup {[kind |-> "throw", val |-> v, inner |-> FALSE] : v \in ThrownValues}
    \cup {[kind |-> "return", val |-> v, inner |-> TRUE] : v \in ReturnValues}

InnerResult == Result("v2", Undefined)

\* onError as passed by the caller: absent, not a function, or a function
\* that delivers {reason}, does nothing, or throws
OnErrors == {"undefined", "notFunction", "deliver", "ignore", "throws"}

IsFunction(onError) == onError \in {"deliver", "ignore", "throws"}

\* effect(wrapper)
runEffect(rcv, s, effect) ==
    LET s1 == [s EXCEPT !.effectRuns = @ + 1]
        t  == IF effect.inner THEN tryReceiver(rcv, s1, InnerResult, "user")
              ELSE NoThrow(s1)
    IN  IF t.threw THEN t
        ELSE IF effect.kind = "throw" THEN Throw(t.sw, effect.val)
        ELSE Return(t.sw, effect.val)

\* the catch block of doEffect
catchBlock(rcv, s, error, onError) ==
    IF ~IsFunction(onError)
    THEN tryReceiver(rcv, s, Result(Undefined, error), "defaultOnError")
    ELSE LET s1 == [s EXCEPT !.onErrorCalls = Append(@, error)]
         IN  CASE onError = "deliver" ->
                    tryReceiver(rcv, s1, Result(Undefined, error), "user")
               [] onError = "ignore" -> NoThrow(s1)
               [] onError = "throws" -> Throw(s1, OnErrorError)

\* mutant: the returned value is delivered without the undefined test
doEffectAlwaysDelivers(rcv, s, effect, onError) ==
    LET r == runEffect(rcv, s, effect)
        t == IF r.threw THEN r
             ELSE tryReceiver(rcv, r.sw, Result(r.value, Undefined), "value")
    IN  IF t.threw THEN catchBlock(rcv, t.sw, t.error, onError)
        ELSE NoThrow(t.sw)

\* doEffect(effect, onError)
doEffect(rcv, s, effect, onError) ==
    LET r == runEffect(rcv, s, effect)
        t == IF r.threw THEN r
             ELSE IF r.value # Undefined
                  THEN tryReceiver(rcv, r.sw, Result(r.value, Undefined), "value")
                  ELSE NoThrow(r.sw)
    IN  IF t.threw THEN catchBlock(rcv, t.sw, t.error, onError)
        ELSE NoThrow(t.sw)

\* --------------------------------------------- the wrapper's operations

NoCall ==
    [op |-> "none", effect |-> CHOOSE e \in Effects : TRUE, onError |-> "undefined",
     result |-> Result(Undefined, Undefined), before |-> NewWrapper,
     threw |-> FALSE, error |-> Undefined]

NoCallable == [set |-> FALSE, effect |-> NoCall.effect, onError |-> "undefined"]

Called(op, effect, onError, result, out) ==
    [op |-> op, effect |-> effect, onError |-> onError, result |-> result,
     before |-> sw, threw |-> out.threw, error |-> out.error]

\* getSafetyWrapper(receiver): builds the closure and returns the frozen
\* wrapper; it makes no call of checkReceiver
GetSafetyWrapper ==
    /\ handle = "none"
    /\ \E r \in Receivers :
        /\ receiver' = r
        /\ handle' = "returned"
        /\ sw' = NewWrapper
    /\ UNCHANGED <<callable, lastCall, nops>>
    /\ UNCHANGED xhrvars

\* wrapper.doEffect(effect, onError)
DoEffect ==
    /\ handle = "returned"
    /\ nops < MaxOps
    /\ \E effect \in Effects, onError \in OnErrors :
        LET out == doEffect(receiver, sw, effect, onError)
        IN  /\ sw' = out.sw
            /\ lastCall' = Called("doEffect", effect, onError, NoCall.result, out)
    /\ nops' = nops + 1
    /\ UNCHANGED <<receiver, handle, callable>>
    /\ UNCHANGED xhrvars

\* wrapper.getEffect(effect, onError): only builds the callable
GetEffect ==
    /\ handle = "returned"
    /\ nops < MaxOps
    /\ \E effect \in Effects, onError \in OnErrors :
        callable' = [set |-> TRUE, effect |-> effect, onError |-> onError]
    /\ nops' = nops + 1
    /\ UNCHANGED <<receiver, handle, sw, lastCall>>
    /\ UNCHANGED xhrvars

\* a timer or an event source calls the callable getEffect returned
CallEffect ==
    /\ callable.set
    /\ nops < MaxOps
    /\ LET out == doEffect(receiver, sw, callable.effect, callable.onError)
       IN  /\ sw' = out.sw
           /\ lastCall' = Called("callable", callable.effect, callable.onError,
                                 NoCall.result, out)
    /\ nops' = nops + 1
    /\ UNCHANGED <<receiver, handle, callable>>
    /\ UNCHANGED xhrvars

\* wrapper.tryReceiver(result), called directly
TryReceiver ==
    /\ handle = "returned"
    /\ nops < MaxOps
    /\ \E result \in {Result("v3", Undefined), Result(Undefined, "e3")} :
        LET out == tryReceiver(receiver, sw, result, "user")
        IN  /\ sw' = out.sw
            /\ lastCall' = Called("tryReceiver", NoCall.effect, "undefined", result, out)
    /\ nops' = nops + 1
    /\ UNCHANGED <<receiver, handle, callable>>
    /\ UNCHANGED xhrvars

NextWrapper ==
    \/ GetSafetyWrapper
    \/ DoEffect
    \/ GetEffect
    \/ CallEffect
    \/ TryReceiver

\* ======================================================= server.mock.js

\* an object without keys
EmptyMap == [k \in {} |-> Undefined]

\* JavaScript truthiness of a string-valued or absent option
Truthy(v) == v # Undefined /\ v # ""

JsonMime == "application/json"

jsonMimeBoilerplate == ("Content-Type" :> JsonMime)

\* failureBoilerplate({error}): a 404 answer with a JSON error body
failureBoilerplate(error) ==
    [responseText |-> "{\"error\":\"" \o error \o "\"}",
     status |-> 404,
     headers |-> jsonMimeBoilerplate]

\* the host the route table knows, and one it does not
RoutedHost == "cheese.com/api"
UnroutedHost == "nowhere.org"

\* mockServerConfig: hostname -> port -> descriptor.  http / https hold
\* "false" when the descriptor disables the protocol and Undefined when it
\* says nothing; methods are the keys that hold a handler function.
mockServerConfig ==
    (RoutedHost :>
        (("80" :> [http |-> Undefined, https |-> "false", methods |-> {"GET"}])
         @@ ("443" :> [http |-> "false", https |-> Undefined, methods |-> {"POST"}])))

\* request bodies: none, the empty string, a JSON text
JsonBody == "{\"user\":\"x\"}"
Bodies == {Undefined, "", JsonBody}

\* JSON.parse(body) throws for a string that is no JSON text
JsonParseThrows(body) == body = ""

ValueNotification(result) ==
    [isValue |-> TRUE, status |-> result.status,
     responseText |-> result.responseText, headers |-> result.headers,
     message |-> Undefined, stack |-> Undefined]

ReasonNotification(message) ==
    [isValue |-> FALSE, status |-> 0, responseText |-> Undefined,
     headers |-> EmptyMap, message |-> message, stack |-> "stack of " \o message]

\* the handler registered for a method on a port of the routed host
handlerResult(portKey, method, body) ==
    IF portKey = "80" /\ method = "GET"
    THEN [threw |-> FALSE,
          result |-> [responseText |-> "{\"cheese\":\"gruyere\"}", status |-> 200,
                      headers |-> jsonMimeBoilerplate]]
    ELSE IF body # Undefined /\ JsonParseThrows(body)
    THEN [threw |-> TRUE, result |-> failureBoilerplate("")]
    ELSE [threw |-> FALSE,
          result |-> [responseText |->
                        IF body = Undefined THEN "{\"createdAt\":now}"
                        ELSE "{\"createdAt\":now,\"user\":\"x\"}",
                      status |-> 201,
                      headers |-> jsonMimeBoilerplate]]

\* [port || protocol === "https" ? 443 : 80]: the conditional applies to
\* the whole disjunction
portKey(port, protocol) ==
    IF Truthy(port) \/ protocol = "https" THEN "443" ELSE "80"

\* the notification doRequest(receiver, options) schedules
doRequest(options) ==
    LET hostKey == IF Truthy(options.host) THEN options.host ELSE "undefined"
        pKey == portKey(options.port, options.protocol)
    IN  IF hostKey \notin DOMAIN mockServerConfig
        THEN ReasonNotification("TypeError: Cannot read properties of undefined")
        ELSE IF pKey \notin DOMAIN mockServerConfig[hostKey]
        THEN ReasonNotification("TypeError: Cannot read properties of undefined")
        ELSE LET endpoint == mockServerConfig[hostKey][pKey]
                 disabled == IF options.protocol = "https" THEN endpoint.https
                             ELSE endpoint.http
             IN  IF disabled = "false"
                 THEN ValueNotification(failureBoilerplate("protocol not supported"))
                 ELSE IF options.method \notin endpoint.methods
                 THEN ValueNotification(failureBoilerplate("HTTP method not supported"))
                 ELSE LET h == handlerResult(pKey, options.method, options.body)
                      IN  IF h.threw
                          THEN ReasonNotification("SyntaxError: Unexpected end of JSON input")
                          ELSE ValueNotification(h.result)

\* doRequestHttp / doRequestHttps: protocol and a default port, then the
\* caller's options spread over them
\* (an option the caller does not pass is Undefined here)
doRequestHttp(options) ==
    doRequest([options EXCEPT
        !.protocol = "http",
        !.port = IF options.port = Undefined THEN "80" ELSE options.port])

doRequestHttps(options) ==
    doRequest([options EXCEPT
        !.protocol = "https",
        !.port = IF options.port = Undefined THEN "443" ELSE options.port])

\* ============================================== xml-http-request.mock.js
\* --------------------------------------------------- MockXMLHttpRequest

UNSENT == 0
OPENED == 1
HEADERS_RECEIVED == 2
LOADING == 3
DONE == 4

\* status = null
NullStatus == -1

\* #abort = null; timer ids start above it
NoTimer == 0

\* a JavaScript value handed to open(): its typeof and String(value)
JsString(str) == [type |-> "string", str |-> str]
JsUndefined == [type |-> "undefined", str |-> "undefined"]

\* String.prototype.toLowerCase on the strings of this model
toLowerCase(str) ==
    CASE str = "GET" -> "get"
      [] str = "POST" -> "post"
      [] str = "TRACE" -> "trace"
      [] str = "Trace" -> "trace"
      [] str = "TRACK" -> "track"
      [] str = "tRaCk" -> "track"
      [] str = "CONNECT" -> "connect"
      [] str = "Connect" -> "connect"
      [] str = "TRACES" -> "traces"
      [] str = "X-A" -> "x-a"
      [] str = "X-a" -> "x-a"
      [] str = "Accept" -> "accept"
      [] str = "ACCEPT" -> "accept"
      [] str = "User-Agent" -> "user-agent"
      [] str = "Cookie" -> "cookie"
      [] str = "COOKIE" -> "cookie"
      [] str = "Content-Length" -> "content-length"
      [] str = "Content-Type" -> "content-type"
      [] str = "Authorization" -> "authorization"
      [] OTHER -> str

\* #defaultHeaders as the class initialises it
DefaultHeaderTable ==
    ("User-Agent" :> "node-XMLHttpRequest") @@ ("Accept" :> "*/*")

\* the order Object.keys(#defaultHeaders) yields
DefaultHeaderNames == <<"User-Agent", "Accept">>

forbiddenRequestHeaders ==
    {"accept-charset", "accept-encoding", "access-control-request-headers",
     "access-control-request-method", "connection", "content-length",
     "content-transfer-encoding", "cookie", "cookie2", "date", "expect",
     "host", "keep-alive", "origin", "referer", "te", "trailer",
     "transfer-encoding", "upgrade", "via"}

forbiddenRequestMethods == {"TRACE", "TRACK", "CONNECT"}

\* what new URL(url) yields: it throws (valid = FALSE) or gives protocol,
\* hostname and port.  The hostnames are the route table's key and an
\* unrouted host.
ParsedUrls ==
    ("" :> [valid |-> FALSE, protocol |-> "", hostname |-> "", port |-> ""])
    @@ ("http://routed/" :>
          [valid |-> TRUE, protocol |-> "http:", hostname |-> RoutedHost, port |-> ""])
    @@ ("https://routed/" :>
          [valid |-> TRUE, protocol |-> "https:", hostname |-> RoutedHost, port |-> ""])
    @@ ("https://unrouted:8080/" :>
          [valid |-> TRUE, protocol |-> "https:", hostname |-> UnroutedHost, port |-> "8080"])
    @@ ("ftp://routed/" :>
          [valid |-> TRUE, protocol |-> "ftp:", hostname |-> RoutedHost, port |-> ""])

\* a new MockXMLHttpRequest().  #headers starts as an object of its own and
\* is later made to refer to #defaultHeaders (headersRef); the object
\* #defaultHeaders is kept with its current content.
NewXhr ==
    [readyState |-> UNSENT,
     status |-> NullStatus,
     statusText |-> "",
     responseText |-> "",
     abort |-> NoTimer,
     responseHeaders |-> EmptyMap,
     settings |-> [method |-> Undefined, url |-> Undefined, async |-> FALSE],
     headersRef |-> "own",
     ownHeaders |-> EmptyMap,
     defaultHeaders |-> DefaultHeaderTable,
     headersCase |-> EmptyMap,
     sendFlag |-> FALSE,
     errorFlag |-> FALSE]

\* the object #headers refers to
Headers(x) ==
    IF x.headersRef = "own" THEN x.ownHeaders ELSE x.defaultHeaders

\* #headers[name] = value: a write to the object #headers refers to
WriteHeader(x, name, value) ==
    IF x.headersRef = "own"
    THEN [x EXCEPT !.ownHeaders = (name :> value) @@ @]
    ELSE [x EXCEPT !.defaultHeaders = (name :> value) @@ @]

\* The world a MockXMLHttpRequest method runs in: the request object, the
\* safety wrapper its listeners deliver through, the timer queue, and the
\* events dispatched so far by the running operation; seen = the status
\* and response headers a listener reads during each of them.
World(x, s, t, n) ==
    [xhr |-> x, sw |-> s, timers |-> t, nextId |-> n, events |-> <<>>,
     seen |-> <<>>]

Ok(w) == [w |-> w, threw |-> FALSE, error |-> Undefined]
Err(w, e) == [w |-> w, threw |-> TRUE, error |-> e]

\* mutant: the timer stays in the queue
clearTimeoutKeeps(queue, id) == queue

\* clearTimeout(id)
clearTimeout(queue, id) ==
    SelectSeq(queue, LAMBDA t : t.id # id)

\* the value httpRequestor's onreadystatechange effect returns at DONE:
\* {statusCode: request.status, ...}
HttpResultValue(x) ==
    "{statusCode:" \o (IF x.status = NullStatus THEN "null" ELSE ToString(x.status)) \o "}"

\* the effect httpRequestor registers as onreadystatechange
onreadystatechange(x) ==
    [kind |-> "return",
     val |-> IF x.readyState # DONE THEN Undefined ELSE HttpResultValue(x),
     inner |-> FALSE]

\* the effect httpRequestor registers as onerror
onerror ==
    [kind |-> "throw", val |-> "An error occurred in XMLHttpRequest.", inner |-> FALSE]

\* the one element of a singleton set
Only(S) == CHOOSE o \in S : TRUE

\* a handler made by wrapper.getEffect(effect), called by the request object
callHandler(w, effect) ==
    Only({[w |-> [w EXCEPT !.sw = out.sw], threw |-> out.threw, error |-> out.error] :
          out \in {doEffect(receiver, w.sw, effect, "undefined")}})

\* abort() is defined below; a listener may call it
RECURSIVE abort(_)

\* the readyState at which an aborting listener calls abort()
AbortsAt ==
    [l \in {"abortsAtHeaders", "abortsAtLoading"} |->
        IF l = "abortsAtHeaders" THEN HEADERS_RECEIVED ELSE LOADING]

\* mutant: no event is dispatched
dispatchEventSilent(w, event) == Ok(w)

\* #dispatchEvent(event): the assigned handler, if any, is called
dispatchEvent(w, event) ==
    LET w1 == [w EXCEPT !.events =
                 Append(@, [event |-> event, readyState |-> w.xhr.readyState]),
                        !.seen =
                 Append(@, [status |-> w.xhr.status,
                            responseHeaders |-> w.xhr.responseHeaders])]
    IN  IF listener = "requestor" /\ event = "readystatechange"
        THEN callHandler(w1, onreadystatechange(w1.xhr))
        ELSE IF listener = "requestor" /\ event = "error"
        THEN callHandler(w1, onerror)
        ELSE IF /\ listener \in DOMAIN AbortsAt
                /\ event = "readystatechange"
                /\ w1.xhr.readyState = AbortsAt[listener]
        THEN abort(w1)
        ELSE Ok(w1)

\* mutant: reaching DONE without error fires loadend before load
setStateLoadendFirst(w, state) ==
    IF w.xhr.readyState = state /\ state # LOADING THEN Ok(w)
    ELSE Only({
           IF o1.threw THEN o1
           ELSE IF o1.w.xhr.readyState = DONE /\ ~o1.w.xhr.errorFlag
           THEN Only({IF o2.threw THEN o2 ELSE dispatchEvent(o2.w, "load") :
                      o2 \in {dispatchEvent(o1.w, "loadend")}})
           ELSE o1 :
           o1 \in {dispatchEvent([w EXCEPT !.xhr.readyState = state],
                                 "readystatechange")}})

\* #setState(state)
setState(w, state) ==
    IF w.xhr.readyState = state /\ state # LOADING THEN Ok(w)
    ELSE Only({
           IF o1.threw THEN o1
           ELSE IF o1.w.xhr.readyState = DONE /\ ~o1.w.xhr.errorFlag
           THEN Only({IF o2.threw THEN o2 ELSE dispatchEvent(o2.w, "loadend") :
                      o2 \in {dispatchEvent(o1.w, "load")}})
           ELSE o1 :
           o1 \in {LET w1 == [w EXCEPT !.xhr.readyState = state]
                   IN  IF w1.xhr.settings.async \/ state < OPENED \/ state = DONE
                       THEN dispatchEvent(w1, "readystatechange")
                       ELSE Ok(w1)}})

\* mutant: abort() never passes through DONE
abortSkipsDone(w) ==
    LET w1 == IF w.xhr.abort # NoTimer
              THEN [w EXCEPT !.timers = clearTimeout(@, w.xhr.abort),
                             !.xhr.abort = NoTimer]
              ELSE w
    IN  dispatchEvent([w1 EXCEPT !.xhr.headersRef = "defaultHeaders",
                                 !.xhr.status = 0,
                                 !.xhr.responseText = "",
                                 !.xhr.errorFlag = TRUE,
                                 !.xhr.readyState = UNSENT],
                      "abort")

\* mutant: abort() passes through DONE from every state but DONE
abortAlwaysDone(w) ==
    LET w1 == IF w.xhr.abort # NoTimer
              THEN [w EXCEPT !.timers = clearTimeout(@, w.xhr.abort),
                             !.xhr.abort = NoTimer]
              ELSE w
        w2 == [w1 EXCEPT !.xhr.headersRef = "defaultHeaders",
                         !.xhr.status = 0,
                         !.xhr.responseText = "",
                         !.xhr.errorFlag = TRUE]
    IN  Only({IF o3.threw THEN o3
              ELSE dispatchEvent([o3.w EXCEPT !.xhr.readyState = UNSENT], "abort") :
              o3 \in {IF w2.xhr.readyState # DONE
                      THEN setState([w2 EXCEPT !.xhr.sendFlag = FALSE], DONE)
                      ELSE Ok(w2)}})

\* mutant: abort() ends with a readystatechange next to its abort event
abortNotifies(w) ==
    LET w1 == IF w.xhr.abort # NoTimer
              THEN [w EXCEPT !.timers = clearTimeout(@, w.xhr.abort),
                             !.xhr.abort = NoTimer]
              ELSE w
        w2 == [w1 EXCEPT !.xhr.headersRef = "defaultHeaders",
                         !.xhr.status = 0,
                         !.xhr.responseText = "",
                         !.xhr.errorFlag = TRUE]
    IN  Only({IF o3.threw THEN o3
              ELSE Only({IF o4.threw THEN o4
                         ELSE dispatchEvent(o4.w, "readystatechange") :
                         o4 \in {dispatchEvent([o3.w EXCEPT !.xhr.readyState = UNSENT],
                                               "abort")}}) :
              o3 \in {IF /\ w2.xhr.readyState # UNSENT
                         /\ (w2.xhr.readyState # OPENED \/ w2.xhr.sendFlag)
                         /\ w2.xhr.readyState # DONE
                      THEN setState([w2 EXCEPT !.xhr.sendFlag = FALSE], DONE)
                      ELSE Ok(w2)}})

\* abort()
abort(w) ==
    LET w1 == IF w.xhr.abort # NoTimer
              THEN [w EXCEPT !.timers = clearTimeout(@, w.xhr.abort),
                             !.xhr.abort = NoTimer]
              ELSE w
        w2 == [w1 EXCEPT !.xhr.headersRef = "defaultHeaders",
                         !.xhr.status = 0,
                         !.xhr.responseText = "",
                         !.xhr.errorFlag = TRUE]
    IN  Only({IF o3.threw THEN o3
              ELSE dispatchEvent([o3.w EXCEPT !.xhr.readyState = UNSENT], "abort") :
              o3 \in {IF /\ w2.xhr.readyState # UNSENT
                         /\ (w2.xhr.readyState # OPENED \/ w2.xhr.sendFlag)
                         /\ w2.xhr.readyState # DONE
                      THEN setState([w2 EXCEPT !.xhr.sendFlag = FALSE], DONE)
                      ELSE Ok(w2)}})

\* #isAllowedHttpMethod(method)
isAllowedHttpMethod(method) ==
    /\ method.type = "string"
    /\ \A forbidden \in forbiddenRequestMethods :
          toLowerCase(forbidden) # toLowerCase(method.str)

\* #isAllowedHttpHeader(header), #disableHeaderCheck being false
isAllowedHttpHeader(header) ==
    \A forbidden \in forbiddenRequestHeaders :
        toLowerCase(forbidden) # toLowerCase(header)

SecurityError == "SecurityError: Request method not allowed"

\* this.#settings = {method, url, async, ...} with async = true and
\* url = String(url)
Settings(method, url) ==
    [method |-> method.str, url |-> url.str, async |-> TRUE]

\* mutant: the forbidden methods are compared as written
openCaseSensitive(w, method, url) ==
    Only({IF o1.threw THEN o1
          ELSE IF method.type # "string" \/ method.str \in forbiddenRequestMethods
          THEN Err([o1.w EXCEPT !.xhr.errorFlag = FALSE], SecurityError)
          ELSE setState([o1.w EXCEPT !.xhr.errorFlag = FALSE,
                                     !.xhr.settings = Settings(method, url)],
                        OPENED) :
          o1 \in {abort(w)}})

\* open(method, url, async)
open(w, method, url) ==
    Only({IF o1.threw THEN o1
          ELSE IF ~isAllowedHttpMethod(method)
          THEN Err([o1.w EXCEPT !.xhr.errorFlag = FALSE], SecurityError)
          ELSE setState([o1.w EXCEPT !.xhr.errorFlag = FALSE,
                                     !.xhr.settings = Settings(method, url)],
                        OPENED) :
          o1 \in {abort(w)}})

\* obj[key], undefined when the key is absent
Get(obj, key) == IF key \in DOMAIN obj THEN obj[key] ELSE Undefined

\* mutant: a forbidden header is stored like any other
setRequestHeaderStoresForbidden(w, header, value) ==
    LET x == w.xhr
    IN  IF x.readyState # OPENED
        THEN Err(w, "INVALID_STATE_ERR: setRequestHeader can only be called when state is OPEN")
        ELSE IF x.sendFlag THEN Err(w, "INVALID_STATE_ERR: send flag is true")
        ELSE LET known == Get(x.headersCase, toLowerCase(header))
                 name == IF Truthy(known) THEN known ELSE header
                 x1 == [x EXCEPT !.headersCase = (toLowerCase(name) :> name) @@ @]
                 old == Get(Headers(x1), name)
                 new == IF Truthy(old) THEN old \o ", " \o value ELSE value
             IN  Ok([w EXCEPT !.xhr = WriteHeader(x1, name, new)])

\* setRequestHeader(header, value)
setRequestHeader(w, header, value) ==
    LET x == w.xhr
    IN  IF x.readyState # OPENED
        THEN Err(w, "INVALID_STATE_ERR: setRequestHeader can only be called when state is OPEN")
        ELSE IF ~isAllowedHttpHeader(header) THEN Ok(w)
        ELSE IF x.sendFlag THEN Err(w, "INVALID_STATE_ERR: send flag is true")
        ELSE LET known == Get(x.headersCase, toLowerCase(header))
                 name == IF Truthy(known) THEN known ELSE header
                 x1 == [x EXCEPT !.headersCase = (toLowerCase(name) :> name) @@ @]
                 old == Get(Headers(x1), name)
                 new == IF Truthy(old) THEN old \o ", " \o value ELSE value
             IN  Ok([w EXCEPT !.xhr = WriteHeader(x1, name, new)])

\* send(): "Include default headers if not already provided", one name
applyDefault(x, header) ==
    IF Truthy(Get(x.headersCase, toLowerCase(header))) THEN x
    ELSE WriteHeader(x, header, Get(x.defaultHeaders, header))

\* Buffer.byteLength(data), as the string stored under Content-Length
byteLength(data) == IF data = JsonBody THEN "12" ELSE "0"

\* send(): the body and the headers that go with it
applyBody(x, data) ==
    IF x.settings.method \in {"GET", "HEAD"} THEN x
    ELSE IF Truthy(data)
    THEN LET x1 == WriteHeader(x, "Content-Length", byteLength(data))
         IN  IF Truthy(Get(Headers(x1), "Content-Type")) THEN x1
             ELSE WriteHeader(x1, "Content-Type", "text/plain;charset=UTF-8")
    ELSE IF x.settings.method = "POST"
    THEN WriteHeader(x, "Content-Length", "0")
    ELSE x

\* mutant: send() does not look at the send flag
sendStateErrorNoFlag(x) ==
    IF x.readyState # OPENED
    THEN "INVALID_STATE_ERR: connection must be opened before send() is called"
    ELSE Undefined

\* send(): the error of its two state checks, Undefined when both pass
sendStateError(x) ==
    IF x.readyState # OPENED
    THEN "INVALID_STATE_ERR: connection must be opened before send() is called"
    ELSE IF x.sendFlag
    THEN "INVALID_STATE_ERR: send has already been called"
    ELSE Undefined

\* send(data), up to the call of the transport
send(w, data) ==
    LET x == w.xhr
    IN  IF sendStateError(x) # Undefined THEN Err(w, sendStateError(x))
        ELSE LET url == ParsedUrls[IF Truthy(x.settings.url) THEN x.settings.url ELSE ""]
             IN  IF ~url.valid THEN Err(w, "TypeError: Invalid URL")
                 ELSE IF url.protocol \notin {"https:", "http:", "file:"}
                 THEN Err(w, "Protocol not supported.")
                 ELSE
    LET ssl == url.protocol = "https:"
        host == IF url.protocol = "file:" THEN Undefined ELSE url.hostname
        port == IF Truthy(url.port) THEN url.port ELSE IF ssl THEN "443" ELSE "80"
        x1 == applyDefault(applyDefault(x, DefaultHeaderNames[1]), DefaultHeaderNames[2])
        body == IF x1.settings.method \in {"GET", "HEAD"} THEN Undefined ELSE data
        x2 == applyBody(x1, data)
        options == [protocol |-> Undefined,
                    host |-> host,
                    port |-> port,
                    method |-> IF Truthy(x2.settings.method) THEN x2.settings.method
                               ELSE "GET",
                    headers |-> Headers(x2),
                    body |-> IF Truthy(body) THEN body ELSE ""]
        x3 == [x2 EXCEPT !.errorFlag = FALSE, !.sendFlag = TRUE]
    IN  Only({IF o4.threw THEN o4
              ELSE Ok([o4.w EXCEPT
                       !.timers = Append(@, [id |-> o4.w.nextId,
                                             options |-> options,
                                             notification |->
                                                IF ssl THEN doRequestHttps(options)
                                                ELSE doRequestHttp(options)]),
                       !.nextId = @ + 1,
                       !.xhr.abort = o4.w.nextId]) :
              o4 \in {dispatchEvent([w EXCEPT !.xhr = x3], "readystatechange")}})

\* the value null a getter returns
Null == "null"

\* getResponseHeader(header): the stored headers are looked up under the
\* lower-cased name
getResponseHeader(x, header) ==
    IF /\ header.type = "string"
       /\ x.readyState > OPENED
       /\ toLowerCase(header.str) \in DOMAIN x.responseHeaders
       /\ Truthy(x.responseHeaders[toLowerCase(header.str)])
       /\ ~x.errorFlag
    THEN x.responseHeaders[toLowerCase(header.str)]
    ELSE Null

\* the text "name: value\r\n" for each stored header but set-cookie and
\* set-cookie2, as a sequence of pieces of which "\r" and "\n" are one
\* character each (the model's responses hold one header, so the order of
\* Object.keys plays no part)
RECURSIVE headerLines(_, _)
headerLines(headers, names) ==
    IF names = {} THEN <<>>
    ELSE LET header == CHOOSE name \in names : TRUE
         IN  (IF header # "set-cookie" /\ header # "set-cookie2"
              THEN <<header, ": ", headers[header], "\r", "\n">>
              ELSE <<>>)
             \o headerLines(headers, names \ {header})

\* result.substring(0, result.length - 1) of a text ending in "\n" or empty
dropLastCharacter(result) ==
    IF result = <<>> THEN <<>> ELSE SubSeq(result, 1, Len(result) - 1)

\* mutant: the headers of a failed request stay readable
getAllResponseHeadersDespiteError(x) ==
    IF x.readyState < HEADERS_RECEIVED THEN <<>>
    ELSE dropLastCharacter(headerLines(x.responseHeaders, DOMAIN x.responseHeaders))

\* getAllResponseHeaders(); the empty sequence is the empty string
getAllResponseHeaders(x) ==
    IF x.readyState < HEADERS_RECEIVED \/ x.errorFlag THEN <<>>
    ELSE dropLastCharacter(headerLines(x.responseHeaders, DOMAIN x.responseHeaders))

\* mutant: a transport error takes the object back to UNSENT
handleErrorToUnsent(w, error) ==
    Only({IF o1.threw THEN o1 ELSE dispatchEvent(o1.w, "error") :
          o1 \in {setState([w EXCEPT !.xhr.status = 0,
                                     !.xhr.errorFlag = TRUE],
                           UNSENT)}})

\* #handleError(error)
handleError(w, error) ==
    Only({IF o1.threw THEN o1 ELSE dispatchEvent(o1.w, "error") :
          o1 \in {setState([w EXCEPT !.xhr.status = 0,
                                     !.xhr.statusText = error.message,
                                     !.xhr.responseText =
                                        IF Truthy(error.stack) THEN error.stack
                                        ELSE "",
                                     !.xhr.errorFlag = TRUE],
                           DONE)}})

\* the callback send() hands to the transport, called with {value, reason}
transportCallback(w, n) ==
    IF ~n.isValue THEN handleError(w, n)
    ELSE Only({
      IF o1.threw THEN o1
      ELSE Only({
        IF o3.threw THEN o3
        ELSE Only({
          IF o4.threw THEN o4
          ELSE IF ~o4.w.xhr.sendFlag
          THEN Ok([o4.w EXCEPT !.xhr.responseText = n.responseText])
          ELSE Only({IF o6.threw THEN o6
                     ELSE Ok([o6.w EXCEPT !.xhr.sendFlag = FALSE]) :
                     o6 \in {setState([o4.w EXCEPT
                                        !.xhr.responseText = n.responseText],
                                      DONE)}}) :
          o4 \in {dispatchEvent(o3.w, "loadstart")}}) :
        o3 \in {IF o1.w.xhr.sendFlag
                THEN setState([o1.w EXCEPT !.xhr.status = IF n.status = 0
                                                          THEN NullStatus
                                                          ELSE n.status],
                              LOADING)
                ELSE Ok([o1.w EXCEPT !.xhr.status = IF n.status = 0
                                                    THEN NullStatus
                                                    ELSE n.status])}}) :
      o1 \in {setState([w EXCEPT !.xhr.responseHeaders = n.headers],
                       HEADERS_RECEIVED)}})

\* ------------------------------------- operations on the request object

NoOp ==
    [op |-> "none", method |-> JsUndefined, url |-> JsUndefined,
     header |-> "", value |-> "", data |-> Undefined, notification |-> "none",
     before |-> [xhr |-> NewXhr, timers |-> <<>>, calls |-> 0],
     threw |-> FALSE, error |-> Undefined, events |-> <<>>,
     seen |-> <<>>]

TheWorld == World(xhr, sw, timers, nextId)

\* the methods open() is tried with: allowed ones, forbidden ones in
\* several casings, and a value that is no string
Methods ==
    {JsString(m) : m \in {"GET", "POST", "TRACE", "trace", "tRaCk", "Connect"}}
    \cup {JsUndefined}

Urls == {JsString(u) : u \in {"", "http://routed/", "https://routed/",
                              "https://unrouted:8080/"}}

HeaderNames == {"X-A", "x-a", "COOKIE", "Accept"}
HeaderValues == {"", "1"}

NoHistory ==
    [headerCalls |-> <<>>, sends |-> 0, statusCause |-> "none",
     done |-> 0, load |-> 0, error |-> 0]

\* how many of the events are the named one
EventCount(events, event) ==
    Cardinality({i \in DOMAIN events : events[i].event = event})

\* how many of the events are a readystatechange seen at DONE
DoneCount(events) ==
    Cardinality({i \in DOMAIN events : /\ events[i].event = "readystatechange"
                                      /\ events[i].readyState = DONE})

\* the history after the caller's operation op with outcome out, the
\* notifications since the last send() that returned not yet counted
Recorded(op, out) ==
    CASE op.op = "open" /\ ~out.threw ->
            [history EXCEPT !.headerCalls = <<>>, !.sends = 0]
      [] op.op = "setRequestHeader" /\ ~out.threw ->
            [history EXCEPT !.headerCalls =
                Append(@, [header |-> op.header, value |-> op.value])]
      [] op.op = "send" /\ ~out.threw ->
            [history EXCEPT !.sends = @ + 1, !.done = 0, !.load = 0, !.error = 0]
      [] op.op = "abort" -> [history EXCEPT !.statusCause = "abortOrError"]
      [] op.op = "notification" ->
            [history EXCEPT !.statusCause = IF op.notification = "value"
                                            THEN "response" ELSE "abortOrError"]
      [] OTHER -> history

\* the history after the caller's operation op with outcome out
Record(op, out) ==
    [Recorded(op, out) EXCEPT !.done = @ + DoneCount(out.w.events),
                              !.load = @ + EventCount(out.w.events, "load"),
                              !.error = @ + EventCount(out.w.events, "error")]

\* what an operation leaves: the request object, the wrapper its listeners
\* used, the timer queue, and the record of the operation
Leaves(op, out) ==
    /\ history' = Record(op, out)
    /\ xhr' = out.w.xhr
    /\ sw' = out.w.sw
    /\ timers' = out.w.timers
    /\ nextId' = out.w.nextId
    /\ lastOp' = [op EXCEPT !.before = [xhr |-> xhr, timers |-> timers,
                                        calls |-> Len(sw.calls)],
                            !.threw = out.threw,
                            !.error = out.error,
                            !.events = out.w.events,
                            !.seen = out.w.seen]

\* usePromise has not been called
NoPromise ==
    [variant |-> "none", thenable |-> [kind |-> "none", val |-> Undefined],
     cancellable |-> FALSE, customCancel |-> "undefined",
     state |-> "pending", outcome |-> Undefined, thenableDone |-> FALSE,
     invocations |-> 0, cancellorReturned |-> FALSE, cancels |-> 0,
     waiting |-> <<>>, jobs |-> <<>>, received |-> <<>>]

\* the transport has not been called directly
NoTransport ==
    [calls |-> <<>>, received |-> <<>>,
     step |-> [kind |-> "none", call |-> 0, entry |-> "none",
               options |-> Undefined, ops |-> 0]]

\* httpRequestor(spec) not called: there is no requestor
NoRequestor ==
    [spec |-> [method |-> JsUndefined, url |-> JsUndefined, body |-> Undefined,
               customCancel |-> "undefined"],
     invoked |-> FALSE, cancellor |-> "undefined", cancels |-> 0]

\* before getSafetyWrapper is called; no request object is in use
InitWrapper ==
    /\ receiver = CHOOSE r \in Receivers : TRUE
    /\ handle = "none"
    /\ sw = NewWrapper
    /\ callable = NoCallable
    /\ lastCall = NoCall
    /\ nops = 0
    /\ listener = "none"
    /\ xhr = NewXhr
    /\ timers = <<>>
    /\ nextId = NoTimer + 1
    /\ lastOp = NoOp
    /\ xops = 0
    /\ requestor = NoRequestor
    /\ history = NoHistory
    /\ transport = NoTransport
    /\ promise = NoPromise

\* a new MockXMLHttpRequest() with no handler assigned
InitXhr ==
    /\ receiver = CHOOSE r \in Receivers : TRUE
    /\ handle = "none"
    /\ sw = NewWrapper
    /\ callable = NoCallable
    /\ lastCall = NoCall
    /\ nops = 0
    /\ listener = "none"
    /\ xhr = NewXhr
    /\ timers = <<>>
    /\ nextId = NoTimer + 1
    /\ lastOp = NoOp
    /\ xops = 0
    /\ requestor = NoRequestor
    /\ history = NoHistory
    /\ transport = NoTransport
    /\ promise = NoPromise

\* a new MockXMLHttpRequest() whose onreadystatechange handler calls
\* abort() during a notification of the completion
InitXhrAborting ==
    /\ receiver = CHOOSE r \in Receivers : TRUE
    /\ handle = "none"
    /\ sw = NewWrapper
    /\ callable = NoCallable
    /\ lastCall = NoCall
    /\ nops = 0
    /\ listener \in DOMAIN AbortsAt
    /\ xhr = NewXhr
    /\ timers = <<>>
    /\ nextId = NoTimer + 1
    /\ lastOp = NoOp
    /\ xops = 0
    /\ requestor = NoRequestor
    /\ history = NoHistory
    /\ transport = NoTransport
    /\ promise = NoPromise

Open ==
    /\ xops < MaxXhrOps
    /\ \E method \in Methods, url \in Urls :
        \* open() does not read the url of a method it rejects
        /\ isAllowedHttpMethod(method) \/ url = JsString("")
        /\ \E out \in {open(TheWorld, method, url)} :
            Leaves([NoOp EXCEPT !.op = "open", !.method = method, !.url = url], out)
    /\ xops' = xops + 1
    /\ UNCHANGED <<receiver, handle, callable, lastCall, nops, listener, requestor, transport, promise>>

SetRequestHeader ==
    /\ xops < MaxXhrOps
    /\ \E header \in HeaderNames, value \in HeaderValues :
        \E out \in {setRequestHeader(TheWorld, header, value)} :
            Leaves([NoOp EXCEPT !.op = "setRequestHeader", !.header = header,
                                !.value = value], out)
    /\ xops' = xops + 1
    /\ UNCHANGED <<receiver, handle, callable, lastCall, nops, listener, requestor, transport, promise>>

Send ==
    /\ xops < MaxXhrOps
    /\ \E data \in Bodies :
        \E out \in {send(TheWorld, data)} :
            Leaves([NoOp EXCEPT !.op = "send", !.data = data], out)
    /\ xops' = xops + 1
    /\ UNCHANGED <<receiver, handle, callable, lastCall, nops, listener, requestor, transport, promise>>

Abort ==
    /\ xops < MaxXhrOps
    /\ \E out \in {abort(TheWorld)} : Leaves([NoOp EXCEPT !.op = "abort"], out)
    /\ xops' = xops + 1
    /\ UNCHANGED <<receiver, handle, callable, lastCall, nops, listener, requestor, transport, promise>>

\* the timer queue runs its oldest timer: the transport's notification
\* reaches the callback send() registered
TimerFires ==
    /\ timers # <<>>
    /\ \E out \in {transportCallback([TheWorld EXCEPT !.timers = Tail(@)],
                                       Head(timers).notification)} :
        Leaves([NoOp EXCEPT !.op = "notification",
                            !.notification = IF Head(timers).notification.isValue
                                             THEN "value" ELSE "reason"], out)
    /\ UNCHANGED <<receiver, handle, callable, lastCall, nops, listener, xops, requestor, transport, promise>>

NextXhr ==
    \/ Open
    \/ SetRequestHeader
    \/ Send
    \/ Abort
    \/ TimerFires

\* ------------------------------------------------------ httpRequestor

\* spec.customCancel: absent; a function that returns no function; one
\* whose cancellor calls the abortRequest it was handed; one whose
\* cancellor calls the tryReceiver it was handed
CustomCancels == {"undefined", "returnsUndefined", "callsAbort", "callsTryReceiver"}

\* the specs httpRequestor is called with; body is the JSON text
\* Stringify[contentType] makes of spec.body
RequestorSpecs ==
    [method : {JsUndefined, JsString("POST"), JsString("TRACE")},
     url : {JsUndefined, JsString("http://routed/"), JsString("https://routed/"),
            JsString("https://unrouted:8080/"), JsString("ftp://routed/")},
     body : {Undefined, JsonBody},
     customCancel : CustomCancels]

CancelReason == "cancelled"

\* the effect the requestor hands to wrapper.doEffect, from request.open
\* on; the outcome also holds the value of the variable cancellor
requestorEffect(w, spec) ==
    Only({
      IF o1.threw THEN [o1 EXCEPT !.cancellor = "undefined"]
      ELSE Only({
        IF o2.threw THEN [o2 EXCEPT !.cancellor = "undefined"]
        ELSE Only({
          IF o3.threw THEN [o3 EXCEPT !.cancellor = "undefined"]
          ELSE IF spec.customCancel = "undefined"
          THEN [o3 EXCEPT !.cancellor = "default"]
          ELSE IF spec.customCancel = "returnsUndefined"
          THEN [w |-> o3.w, threw |-> TRUE,
                error |-> "customCancel did not return a function",
                cancellor |-> "undefined"]
          ELSE [o3 EXCEPT !.cancellor = spec.customCancel] :
          o3 \in {[cancellor |-> ""] @@ send(o2.w, spec.body)}}) :
        o2 \in {[cancellor |-> ""]
                @@ setRequestHeader(o1.w, "Content-Type", JsonMime)}}) :
      o1 \in {[cancellor |-> ""]
              @@ open(w, IF spec.method = JsUndefined THEN JsString("GET")
                         ELSE spec.method,
                      IF spec.url = JsUndefined THEN JsString("") ELSE spec.url)}})

\* the requestor: wrapper = getSafetyWrapper(receiver);
\* wrapper.doEffect(effect); return cancellor
invokeRequestor(w, rcv, spec) ==
    Only({
      IF b.threw
      THEN Only({[w |-> [b.w EXCEPT !.sw = c.sw], threw |-> c.threw,
                  error |-> c.error, cancellor |-> b.cancellor] :
                 c \in {catchBlock(rcv, b.w.sw, b.error, "undefined")}})
      ELSE b :
      b \in {requestorEffect([w EXCEPT !.sw = [NewWrapper EXCEPT !.effectRuns = 1]],
                             spec)}})

\* a call of the cancellor the requestor returned
cancel(w, rcv, cancellor) ==
    CASE cancellor = "default" -> Ok(w)   \* () => request.abort
      [] cancellor = "callsAbort" ->
            \* request.abort was handed over unbound: this.#abort throws
            Err(w, "TypeError")
      [] cancellor = "callsTryReceiver" ->
            Only({[w |-> [w EXCEPT !.sw = t.sw], threw |-> t.threw, error |-> t.error] :
                  t \in {tryReceiver(rcv, w.sw, Result(Undefined, CancelReason),
                                     "user")}})

\* httpRequestor(spec) has been called with some spec, and a receiver is at
\* hand for the requestor it returned
InitRequestor ==
    /\ receiver \in Receivers
    /\ handle = "none"
    /\ sw = NewWrapper
    /\ callable = NoCallable
    /\ lastCall = NoCall
    /\ nops = 0
    /\ listener = "requestor"
    /\ xhr = NewXhr
    /\ timers = <<>>
    /\ nextId = NoTimer + 1
    /\ lastOp = NoOp
    /\ xops = 0
    /\ history = NoHistory
    /\ transport = NoTransport
    /\ promise = NoPromise
    /\ requestor \in {[NoRequestor EXCEPT !.spec = spec] : spec \in RequestorSpecs}

\* requestor(receiver)
InvokeRequestor ==
    /\ ~requestor.invoked
    /\ \E out \in {invokeRequestor(TheWorld, receiver, requestor.spec)} :
        /\ Leaves([NoOp EXCEPT !.op = "requestor"], out)
        /\ requestor' = [requestor EXCEPT !.invoked = TRUE,
                                          !.cancellor = out.cancellor]
    /\ handle' = "returned"
    /\ UNCHANGED <<receiver, callable, lastCall, nops, listener, xops, transport, promise>>

\* cancellor()
Cancel ==
    /\ requestor.cancellor # "undefined"
    /\ requestor.cancels < MaxCancels
    /\ \E out \in {cancel(TheWorld, receiver, requestor.cancellor)} :
        Leaves([NoOp EXCEPT !.op = "cancel"], out)
    /\ requestor' = [requestor EXCEPT !.cancels = @ + 1]
    /\ UNCHANGED <<receiver, handle, callable, lastCall, nops, listener, xops, transport, promise>>

NextRequestor ==
    \/ InvokeRequestor
    \/ TimerFires
    \/ Cancel

\* ------------------------------------- the transport, called directly

\* direct calls of the transport per behaviour
MaxRequests == 2

\* steps (calls, cancellations, timer runs) per behaviour
MaxTransportOps == 5

\* the three entry points of server.mock.js
Entries == {"doRequest", "doRequestHttp", "doRequestHttps"}

\* the options the transport is called with: doRequest is given a protocol,
\* the other two add it themselves; a port may be left out; PUT has no
\* handler anywhere; the empty body makes the POST handler throw
TransportOptions(entry) ==
    {[protocol |-> protocol, host |-> host, port |-> port, method |-> mb[1],
      headers |-> EmptyMap, body |-> mb[2]] :
        protocol \in IF entry = "doRequest" THEN {"http", "https"} ELSE {Undefined},
        host \in {RoutedHost, UnroutedHost},
        port \in {Undefined, "80", "443", "8080"},
        mb \in {<<"GET", Undefined>>, <<"POST", Undefined>>, <<"POST", "">>,
                <<"POST", JsonBody>>, <<"PUT", Undefined>>}}

\* what the entry point hands to setTimeout
notificationOf(entry, options) ==
    CASE entry = "doRequest" -> doRequest(options)
      [] entry = "doRequestHttp" -> doRequestHttp(options)
      [] entry = "doRequestHttps" -> doRequestHttps(options)

\* mutant: a failure is reported to the receiver before the call returns
requestSync(t, entry, options) ==
    IF notificationOf(entry, options).isValue
    THEN [timers |-> Append(t.timers, [id |-> t.nextId,
                                       notification |-> notificationOf(entry, options)]),
          nextId |-> t.nextId + 1,
          received |-> t.received,
          cancel |-> t.nextId]
    ELSE [timers |-> t.timers,
          nextId |-> t.nextId + 1,
          received |-> Append(t.received,
                              [id |-> t.nextId,
                               notification |-> notificationOf(entry, options)]),
          cancel |-> t.nextId]

\* a call entry(receiver, options): on the success path and in the catch
\* block alike, setTimeout queues the call of the receiver, and the
\* cancel function returned holds the timer's id
request(t, entry, options) ==
    [timers |-> Append(t.timers, [id |-> t.nextId,
                                  notification |-> notificationOf(entry, options)]),
     nextId |-> t.nextId + 1,
     received |-> t.received,
     cancel |-> t.nextId]

\* the transport alone: no request object, no wrapper
InitTransport ==
    /\ receiver = CHOOSE r \in Receivers : TRUE
    /\ handle = "none"
    /\ sw = NewWrapper
    /\ callable = NoCallable
    /\ lastCall = NoCall
    /\ nops = 0
    /\ listener = "none"
    /\ xhr = NewXhr
    /\ timers = <<>>
    /\ nextId = NoTimer + 1
    /\ lastOp = NoOp
    /\ xops = 0
    /\ requestor = NoRequestor
    /\ history = NoHistory
    /\ transport = NoTransport
    /\ promise = NoPromise

\* cancel = entry(receiver, options)
Request ==
    /\ Len(transport.calls) < MaxRequests
    /\ transport.step.ops < MaxTransportOps
    /\ \E entry \in Entries : \E options \in TransportOptions(entry) :
         \E out \in {request([timers |-> timers, nextId |-> nextId,
                              received |-> transport.received], entry, options)} :
            /\ timers' = out.timers
            /\ nextId' = out.nextId
            /\ transport' =
                  [calls |-> Append(transport.calls,
                                    [cancel |-> out.cancel, cancels |-> 0,
                                     cancelledPending |-> FALSE]),
                   received |-> out.received,
                   step |-> [kind |-> "request", call |-> Len(transport.calls) + 1,
                             entry |-> entry, options |-> options,
                             ops |-> transport.step.ops + 1]]
    /\ UNCHANGED <<swvars, listener, xhr, lastOp, xops, requestor, history, promise>>

\* cancel(), for the cancel function some earlier call returned
CancelRequest ==
    /\ transport.step.ops < MaxTransportOps
    /\ \E c \in DOMAIN transport.calls :
         /\ timers' = clearTimeout(timers, transport.calls[c].cancel)
         /\ transport' =
               [calls |-> [transport.calls EXCEPT
                             ![c].cancels = @ + 1,
                             ![c].cancelledPending =
                                 @ \/ \E i \in DOMAIN timers :
                                         timers[i].id = transport.calls[c].cancel],
                received |-> transport.received,
                step |-> [kind |-> "cancel", call |-> c, entry |-> "none",
                          options |-> Undefined, ops |-> transport.step.ops + 1]]
    /\ UNCHANGED <<swvars, listener, xhr, nextId, lastOp, xops, requestor, history, promise>>

\* the timer queue runs its oldest timer: the receiver is called
ReceiverCalled ==
    /\ transport.step.ops < MaxTransportOps
    /\ timers # <<>>
    /\ timers' = Tail(timers)
    /\ transport' =
          [calls |-> transport.calls,
           received |-> Append(transport.received,
                               [id |-> Head(timers).id,
                                notification |-> Head(timers).notification]),
           step |-> [kind |-> "timer",
                     call |-> CHOOSE c \in DOMAIN transport.calls :
                                 transport.calls[c].cancel = Head(timers).id,
                     entry |-> "none", options |-> Undefined,
                     ops |-> transport.step.ops + 1]]
    /\ UNCHANGED <<swvars, listener, xhr, nextId, lastOp, xops, requestor, history, promise>>

NextTransport ==
    \/ Request
    \/ CancelRequest
    \/ ReceiverCalled

\* ----------------------------------------------- factories.js: usePromise

\* invocations of the requestor per behaviour
MaxInvocations == 2

\* what the wrapped thenable does when it settles
Thenables == {[kind |-> "fulfils", val |-> "v1"], [kind |-> "rejects", val |-> "e1"]}

\* the file defines usePromise twice: the first requestor calls
\* promise.then(...).catch(...) itself and returns cancel, the second does
\* so inside getSafetyWrapper(receiver).doEffect and returns nothing
PromiseVariants == {"first", "second"}

\* spec.customCancel: absent, or a factory whose cancellor rejects with a reason
PromiseCustomCancels == {"undefined", "rejectsWithReason"}

\* usePromise(thenable, spec): the promise is pending, nobody waits for it
usePromise(variant, thenable, cancellable, customCancel) ==
    [NoPromise EXCEPT !.variant = variant, !.thenable = thenable,
                      !.cancellable = cancellable, !.customCancel = customCancel]

\* resolve(value) / reject(reason) of the promise: the first call settles
\* it and queues the then-reaction of everyone waiting, later calls do
\* nothing
settle(p, state, outcome) ==
    IF p.state # "pending" THEN p
    ELSE [p EXCEPT !.state = state,
                   !.outcome = outcome,
                   !.jobs = @ \o [i \in 1..Len(p.waiting) |->
                                    [inv |-> p.waiting[i], kind |-> "then",
                                     reason |-> Undefined]],
                   !.waiting = <<>>]

\* promiseRequestor(receiver): promise.then(...).catch(...)
promiseRequestor(p) ==
    IF p.state = "pending"
    THEN [p EXCEPT !.invocations = @ + 1,
                   !.waiting = Append(@, p.invocations + 1),
                   !.cancellorReturned = @ \/ (p.cancellable /\ p.variant = "first")]
    ELSE [p EXCEPT !.invocations = @ + 1,
                   !.jobs = Append(@, [inv |-> p.invocations + 1, kind |-> "then",
                                       reason |-> Undefined]),
                   !.cancellorReturned = @ \/ (p.cancellable /\ p.variant = "first")]

\* the cancellor: reject => () => reject() by default
cancelPromise(p) ==
    [settle(p, "rejected",
            IF p.customCancel = "undefined" THEN Undefined ELSE CancelReason)
     EXCEPT !.cancels = @ + 1]

\* the oldest reaction job runs.  A then-reaction of a fulfilled promise
\* is value => receiver({ value }); of a rejected one it passes the reason
\* on.  The promise then() returned is rejected by a passed-on reason and
\* by what the receiver threw alike, and its catch-reaction is
\* reason => receiver({ reason }).
runJob(p, rcv) ==
    IF Head(p.jobs).kind = "then"
    THEN IF p.state = "fulfilled"
         THEN [p EXCEPT
                 !.received = Append(@, [inv |-> Head(p.jobs).inv,
                                         result |-> Result(p.outcome, Undefined)]),
                 !.jobs = IF rcv.behaviour = "throw"
                          THEN Append(Tail(@), [inv |-> Head(p.jobs).inv,
                                                kind |-> "catch",
                                                reason |-> ReceiverError])
                          ELSE Tail(@)]
         ELSE [p EXCEPT
                 !.jobs = Append(Tail(@), [inv |-> Head(p.jobs).inv,
                                           kind |-> "catch",
                                           reason |-> p.outcome])]
    ELSE [p EXCEPT
            !.received = Append(@, [inv |-> Head(p.jobs).inv,
                                    result |-> Result(Undefined, Head(p.jobs).reason)]),
            !.jobs = Tail(@)]

\* usePromise(thenable, spec) has returned a requestor, and a receiver (a
\* function of one argument, which returns or throws) is at hand for it
InitPromise ==
    /\ receiver \in {r \in Receivers : ~checkReceiver(r)}
    /\ handle = "none"
    /\ sw = NewWrapper
    /\ callable = NoCallable
    /\ lastCall = NoCall
    /\ nops = 0
    /\ listener = "none"
    /\ xhr = NewXhr
    /\ timers = <<>>
    /\ nextId = NoTimer + 1
    /\ lastOp = NoOp
    /\ xops = 0
    /\ requestor = NoRequestor
    /\ history = NoHistory
    /\ transport = NoTransport
    /\ promise \in {usePromise(variant, thenable, cancellable, customCancel) :
                       variant \in PromiseVariants, thenable \in Thenables,
                       cancellable \in BOOLEAN, customCancel \in PromiseCustomCancels}

\* promiseRequestor(receiver)
PromiseRequestor ==
    /\ promise.invocations < MaxInvocations
    /\ promise' = promiseRequestor(promise)
    /\ sw' = IF promise.variant = "second"
             THEN [NewWrapper EXCEPT !.effectRuns = 1] ELSE sw
    /\ UNCHANGED <<receiver, handle, callable, lastCall, nops, listener, xhr, timers,
                   nextId, lastOp, xops, requestor, history, transport>>

\* the thenable settles: Promise.resolve(thenable).then(resolve).catch(reject)
ThenableSettles ==
    /\ ~promise.thenableDone
    /\ promise' = [settle(promise,
                          IF promise.thenable.kind = "fulfils" THEN "fulfilled"
                          ELSE "rejected",
                          promise.thenable.val)
                   EXCEPT !.thenableDone = TRUE]
    /\ UNCHANGED <<swvars, listener, xhr, timers, nextId, lastOp, xops, requestor,
                   history, transport>>

\* cancel(), for the cancellor an invocation returned
CancelPromise ==
    /\ promise.cancellorReturned
    /\ promise.cancels < MaxCancels
    /\ promise' = cancelPromise(promise)
    /\ UNCHANGED <<swvars, listener, xhr, timers, nextId, lastOp, xops, requestor,
                   history, transport>>

\* the job queue runs its oldest reaction
RunJob ==
    /\ promise.jobs # <<>>
    /\ promise' = runJob(promise, receiver)
    /\ UNCHANGED <<swvars, listener, xhr, timers, nextId, lastOp, xops, requestor,
                   history, transport>>

NextPromise ==
    \/ PromiseRequestor
    \/ ThenableSettles
    \/ CancelPromise
    \/ RunJob

vars == <<swvars, xhrvars>>

\* a requestor made by usePromise, its promise and the job queue
SpecPromise ==
    /\ InitPromise
    /\ [][NextPromise]_vars


\* server.mock.js alone, its receiver recording what it is called with
SpecTransport ==
    /\ InitTransport
    /\ [][NextTransport]_vars


\* the wrapper alone
SpecWrapper ==
    /\ InitWrapper
    /\ [][NextWrapper]_vars

\* the request object alone, nobody listening
SpecXhr ==
    /\ InitXhr
    /\ [][NextXhr]_vars

\* the request object alone, the timer queue running every timer that
\* stays queued (setTimeout(..., 0) callbacks are run by the event loop)
SpecXhrFair ==
    /\ InitXhr
    /\ [][NextXhr]_vars
    /\ WF_vars(TimerFires)

\* the request object with a listener that aborts during a completion
SpecXhrAborting ==
    /\ InitXhrAborting
    /\ [][NextXhr]_vars

\* a requestor made by httpRequestor, its transport and its cancellor
SpecRequestor ==
    /\ InitRequestor
    /\ [][NextRequestor]_vars

\* ================================================================ claims
\* ------------------------------------------------- the safety wrapper

\* the receivers the contract admits: functions of exactly one argument
IsFunctionOfOneArgument(r) ==
    r.type = "function" /\ ~r.isFunctionPrototype /\ r.length = 1

\* the receiver invocations the last wrapper operation made
NewCalls ==
    SubSeq(sw.calls, Len(lastCall.before.calls) + 1, Len(sw.calls))

\* C1: over any sequence of doEffect calls, getEffect callables and
\* tryReceiver calls, whatever the effects and the receiver do, the receiver
\* is invoked at most once over the wrapper's lifetime.
C1_ReceiverAtMostOnce ==
    Len(sw.calls) <= 1

\* C3: a call of doEffect and a call of a callable returned by getEffect
\* always return normally, for any effect, onError and receiver.
C3_NoErrorEscapes ==
    lastCall.op \in {"doEffect", "callable"} => ~lastCall.threw

C6_DoEffectContract ==
    LET c == lastCall
        e == c.effect
    IN  ( /\ c.op = "doEffect"
          /\ c.before.allowReceiver
          /\ IsFunctionOfOneArgument(receiver)
          /\ ~e.inner ) =>
        /\ sw.effectRuns = c.before.effectRuns + 1
        /\ e.kind = "return" /\ e.val # Undefined =>
             /\ NewCalls # <<>>
             /\ NewCalls[1].result = Result(e.val, Undefined)
        /\ e.kind = "return" /\ e.val = Undefined => NewCalls = <<>>
        /\ e.kind = "throw" /\ IsFunction(c.onError) =>
             sw.onErrorCalls = Append(c.before.onErrorCalls, e.val)
        /\ e.kind = "throw" /\ ~IsFunction(c.onError) =>
             /\ NewCalls # <<>>
             /\ NewCalls[1].result = Result(Undefined, e.val)
             /\ sw.onErrorCalls = c.before.onErrorCalls

C6_Witness ==
    /\ lastCall.op = "doEffect"
    /\ lastCall.before.allowReceiver
    /\ IsFunctionOfOneArgument(receiver)
    /\ lastCall.effect = [kind |-> "throw", val |-> "e1", inner |-> FALSE]
    /\ lastCall.onError = "notFunction"
    /\ NewCalls = <<[result |-> Result(Undefined, "e1"), via |-> "defaultOnError"]>>

\* C7: once the receiver has been given a Result, every later doEffect call,
\* getEffect callable and tryReceiver call is a no-op: the receiver is not
\* invoked and the effect function is not executed.
C7_NoOpAfterDelivery ==
    lastCall.op # "none" /\ Len(lastCall.before.calls) > 0 =>
        /\ sw.calls = lastCall.before.calls
        /\ sw.effectRuns = lastCall.before.effectRuns

\* the Results doEffect's own code delivered: the returned value, or the
\* default error policy's {reason}
DeliveredByDoEffect ==
    {i \in DOMAIN sw.calls : sw.calls[i].via \in {"value", "defaultOnError"}}

\* C8 as stated: every Result doEffect or a getEffect callable delivers has
\* exactly one of value / reason populated.
C8_ExactlyOnePopulated ==
    \A i \in DeliveredByDoEffect :
        (sw.calls[i].result.value # Undefined) # (sw.calls[i].result.reason # Undefined)

\* C8 amended: such a Result never has both populated; the Result for a
\* returned value has value populated and no reason; the Result for a thrown
\* value has no value, and its reason is the thrown value, so that neither
\* is populated when undefined was thrown.
C8_NeverBothPopulated ==
    \A i \in DeliveredByDoEffect :
        LET r == sw.calls[i].result
        IN  /\ ~(r.value # Undefined /\ r.reason # Undefined)
            /\ sw.calls[i].via = "value" => r.value # Undefined /\ r.reason = Undefined
            /\ sw.calls[i].via = "defaultOnError" => r.value = Undefined

C8_Witness ==
    /\ lastCall.op \in {"doEffect", "callable"}
    /\ lastCall.effect = [kind |-> "throw", val |-> Undefined, inner |-> FALSE]
    /\ \E i \in DeliveredByDoEffect :
        sw.calls[i].result = Result(Undefined, Undefined)

\* ------------------------------------------------- the HTTP requestor

\* C2: for an invocation of a requestor made by httpRequestor, under any
\* interleaving of transport answers, synchronous failures inside the
\* requestor and calls of the cancellor, the receiver is invoked 0 or 1
\* times, never more.
C2_RequestorReceiverAtMostOnce ==
    requestor.invoked => Len(sw.calls) \in {0, 1}

\* the receiver invocations the last request operation made
DeliveredByLastOp ==
    SubSeq(sw.calls, lastOp.before.calls + 1, Len(sw.calls))

\* C4: when the transport answers a sent request with a {reason}
\* notification, what the requestor's receiver is given is a failure Result
\* (reason populated, value undefined), never a success Result.
C4_TransportFailureIsFailureResult ==
    ( /\ listener = "requestor"
      /\ lastOp.op = "notification"
      /\ lastOp.notification = "reason" ) =>
        \A i \in DOMAIN DeliveredByLastOp :
            /\ DeliveredByLastOp[i].result.value = Undefined
            /\ DeliveredByLastOp[i].result.reason # Undefined

\* ------------------------------------------------- the request object

\* the method spellings of this model that equal TRACE, TRACK or CONNECT
\* when case is ignored
ForbiddenSpellings ==
    {"TRACE", "trace", "Trace", "TRACK", "track", "tRaCk",
     "CONNECT", "connect", "Connect"}

\* C9: open(method, url) throws for every method equal, case-insensitively,
\* to TRACE, TRACK or CONNECT and for a method that is no string, and
\* leaves readyState at OPENED for every other string method.
C9_OpenValidatesMethod ==
    lastOp.op = "open" =>
        IF lastOp.method.type # "string" \/ lastOp.method.str \in ForbiddenSpellings
        THEN lastOp.threw
        ELSE ~lastOp.threw /\ xhr.readyState = OPENED

C9_Witness ==
    /\ lastOp.op = "open"
    /\ lastOp.method = JsString("tRaCk")
    /\ lastOp.before.xhr.readyState = OPENED
    /\ lastOp.threw

\* C10: an open() call that fails method validation mutates nothing: the
\* readyState, sendFlag, errorFlag, status, responseText, request headers
\* and pending transport are as before the call, and no event has been
\* dispatched.
C10_FailedOpenMutatesNothing ==
    (lastOp.op = "open" /\ lastOp.threw) =>
        /\ xhr.readyState = lastOp.before.xhr.readyState
        /\ xhr.sendFlag = lastOp.before.xhr.sendFlag
        /\ xhr.errorFlag = lastOp.before.xhr.errorFlag
        /\ xhr.status = lastOp.before.xhr.status
        /\ xhr.responseText = lastOp.before.xhr.responseText
        /\ Headers(xhr) = Headers(lastOp.before.xhr)
        /\ xhr.abort = lastOp.before.xhr.abort
        /\ timers = lastOp.before.timers
        /\ lastOp.events = <<>>

\* C11: after an open() that returns, from whatever state the object was
\* in, readyState = OPENED, sendFlag = false and errorFlag = false.
C11_OpenResets ==
    (lastOp.op = "open" /\ ~lastOp.threw) =>
        /\ xhr.readyState = OPENED
        /\ ~xhr.sendFlag
        /\ ~xhr.errorFlag

\* C12: when open() is called while a sent request is pending, the pending
\* transport is cancelled: no completion of it stays in the timer queue, so
\* none is processed afterwards.  Every completion that is pending belongs
\* to the request that is currently sent and not yet answered.
C12_OpenCancelsPending ==
    /\ (lastOp.op = "open" /\ lastOp.before.timers # <<>>) => timers = <<>>
    /\ \A i \in DOMAIN timers :
          /\ timers[i].id = xhr.abort
          /\ xhr.sendFlag
          /\ xhr.readyState = OPENED

C12_Witness ==
    /\ lastOp.op = "open"
    /\ ~lastOp.threw
    /\ lastOp.before.xhr.sendFlag
    /\ lastOp.before.timers # <<>>
    /\ xhr.readyState = OPENED

\* C13: setRequestHeader(name, value) throws a state error for every header
\* name, allowed or forbidden, whenever the object is not in readyState
\* OPENED with sendFlag false.
C13_SetRequestHeaderStateError ==
    ( /\ lastOp.op = "setRequestHeader"
      /\ ~(lastOp.before.xhr.readyState = OPENED /\ ~lastOp.before.xhr.sendFlag) ) =>
        lastOp.threw

\* header names compared without regard to case: the spellings of this
\* model by the name they spell
FoldedName(name) ==
    CASE name \in {"X-A", "x-a", "X-a"} -> "x-a"
      [] name \in {"COOKIE", "Cookie", "cookie"} -> "cookie"
      [] OTHER -> name

\* the setRequestHeader calls of the current transaction that named the
\* header of the last call (which is the last of them), in call order
SameHeaderCalls ==
    LET calls == history.headerCalls
        pick[i \in 0..Len(calls)] ==
            IF i = 0 THEN <<>>
            ELSE IF FoldedName(calls[i].header) = FoldedName(lastOp.header)
                 THEN Append(pick[i - 1], calls[i])
                 ELSE pick[i - 1]
    IN  pick[Len(calls)]

\* the values of those calls joined with ", "
JoinedValues ==
    LET calls == SameHeaderCalls
        join[i \in 1..Len(calls)] ==
            IF i = 1 THEN calls[1].value
            ELSE join[i - 1] \o ", " \o calls[i].value
    IN  join[Len(calls)]

\* C14: within one opened transaction, successive setRequestHeader calls on
\* the same allowed name, in any casing, store one entry, under the casing
\* of the first call, whose value is all supplied values in call order
\* joined with ", "; for every value, the empty string included, and also
\* on an object that was used for an earlier transaction.
C14_HeaderValuesJoined ==
    ( /\ lastOp.op = "setRequestHeader"
      /\ ~lastOp.threw
      /\ FoldedName(lastOp.header) = "x-a" ) =>
        /\ SameHeaderCalls[1].header \in DOMAIN Headers(xhr)
        /\ Headers(xhr)[SameHeaderCalls[1].header] = JoinedValues
        /\ \A name \in DOMAIN Headers(xhr) :
              FoldedName(name) = "x-a" => name = SameHeaderCalls[1].header

\* the errors send() throws for a call outside its lifecycle state
SendStateErrors ==
    {"INVALID_STATE_ERR: connection must be opened before send() is called",
     "INVALID_STATE_ERR: send has already been called"}

\* C15: unless readyState = OPENED and sendFlag = false, send() throws a
\* state error, starts no transport and changes neither sendFlag nor
\* readyState; a second send() on the same opened transaction always
\* throws (no transaction has two send() calls that returned).
C15_SendStateError ==
    /\ ( /\ lastOp.op = "send"
         /\ ~(lastOp.before.xhr.readyState = OPENED /\ ~lastOp.before.xhr.sendFlag) ) =>
           /\ lastOp.threw
           /\ lastOp.error \in SendStateErrors
           /\ timers = lastOp.before.timers
           /\ xhr.sendFlag = lastOp.before.xhr.sendFlag
           /\ xhr.readyState = lastOp.before.xhr.readyState
           /\ lastOp.events = <<>>
    /\ history.sends <= 1
    /\ (lastOp.op = "send" /\ history.sends = 1 /\ lastOp.threw) =>
           lastOp.error \in SendStateErrors

C15_Witness ==
    /\ lastOp.op = "send"
    /\ lastOp.before.xhr.readyState = OPENED
    /\ lastOp.before.xhr.sendFlag
    /\ lastOp.before.timers # <<>>
    /\ lastOp.threw

\* C16: a send() that returns has set sendFlag = true and has dispatched
\* one readystatechange, inside the call and with readyState still OPENED,
\* while the transport's completion for the request is still pending.
C16_SendNotifiesSynchronously ==
    (lastOp.op = "send" /\ ~lastOp.threw) =>
        /\ xhr.sendFlag
        /\ xhr.readyState = OPENED
        /\ lastOp.events = <<[event |-> "readystatechange", readyState |-> OPENED]>>
        /\ Len(timers) = Len(lastOp.before.timers) + 1
        /\ timers[Len(timers)].id = xhr.abort

C16_Witness ==
    /\ lastOp.op = "send"
    /\ ~lastOp.threw
    /\ xhr.sendFlag
    /\ timers # <<>>

\* C17: status is null as long as no response notification has been
\* processed since the object was created (and no abort() or transport
\* error happened), after open() and after send() included; and status is 0
\* after an abort() or a transport error until a later response sets it.
C17_StatusNullThenZero ==
    /\ history.statusCause = "none" => xhr.status = NullStatus
    /\ history.statusCause = "abortOrError" => xhr.status = 0

\* the readyState values the last operation showed: the one it started
\* from, the one seen at each event it dispatched, the one it left
SeenStates ==
    <<lastOp.before.xhr.readyState>>
    \o [i \in 1..Len(lastOp.events) |-> lastOp.events[i].readyState]
    \o <<xhr.readyState>>

\* the position in SeenStates from which no abort() is running any more:
\* that of the abort event, which abort() dispatches last, or the start
AfterAbort ==
    LET at == {i \in 1..Len(lastOp.events) : lastOp.events[i].event = "abort"}
    IN  IF at = {} THEN 1 ELSE 1 + CHOOSE i \in at : \A j \in at : j <= i

\* C18: over any sequence of open, setRequestHeader, send, abort and
\* transport notifications, readyState never decreases except inside
\* abort(), the abort() that open() performs included; every other
\* transition moves it forward in the order UNSENT < OPENED <
\* HEADERS_RECEIVED < LOADING < DONE.
C18_ReadyStateForward ==
    /\ \A i \in AfterAbort..(Len(SeenStates) - 1) : SeenStates[i] <= SeenStates[i + 1]
    /\ lastOp.op \notin {"open", "abort"} => AfterAbort = 1
    /\ xhr.readyState \in {UNSENT, OPENED, HEADERS_RECEIVED, LOADING, DONE}

C18_Witness ==
    /\ lastOp.op = "notification"
    /\ lastOp.notification = "value"
    /\ SeenStates = <<OPENED, HEADERS_RECEIVED, LOADING, LOADING, DONE, DONE, DONE, DONE>>

\* C19: abort() called after send() and before the transport completes
\* dispatches exactly one readystatechange, seen at readyState = DONE, and
\* no load or loadend; it leaves readyState = UNSENT and sendFlag = false;
\* it fires the abort event last; and the cancelled transport's completion
\* is not processed afterwards (it is no longer in the timer queue).
C19_AbortWhilePending ==
    ( /\ lastOp.op = "abort"
      /\ lastOp.before.xhr.readyState = OPENED
      /\ lastOp.before.xhr.sendFlag
      /\ lastOp.before.timers # <<>> ) =>
        /\ lastOp.events = <<[event |-> "readystatechange", readyState |-> DONE],
                             [event |-> "abort", readyState |-> UNSENT]>>
        /\ xhr.readyState = UNSENT
        /\ ~xhr.sendFlag
        /\ timers = <<>>

C19_Witness ==
    /\ lastOp.op = "abort"
    /\ lastOp.before.xhr.sendFlag
    /\ lastOp.before.timers # <<>>
    /\ Len(lastOp.events) = 2

\* C20: abort() called when no request has been sent (readyState UNSENT, or
\* OPENED with sendFlag false) leaves readyState = UNSENT and dispatches
\* only the abort event.
C20_AbortBeforeSend ==
    ( /\ lastOp.op = "abort"
      /\ \/ lastOp.before.xhr.readyState = UNSENT
         \/ lastOp.before.xhr.readyState = OPENED /\ ~lastOp.before.xhr.sendFlag ) =>
        /\ xhr.readyState = UNSENT
        /\ lastOp.events = <<[event |-> "abort", readyState |-> UNSENT]>>

C20_Witness ==
    /\ lastOp.op = "abort"
    /\ lastOp.before.xhr.readyState = OPENED
    /\ ~lastOp.before.xhr.sendFlag
    /\ xhr.readyState = UNSENT

\* what abort() is said to reset: readyState, sendFlag, errorFlag, status,
\* responseText, the request headers and the transport handle
AbortedFields(x) ==
    <<x.readyState, x.sendFlag, x.errorFlag, x.status, x.responseText,
      Headers(x), x.abort>>

\* C21: abort() is idempotent on the object's state: an abort() that
\* immediately follows an abort() leaves readyState, sendFlag, errorFlag,
\* status, responseText, the request headers and the transport handle as
\* the first one left them, leaves the timer queue alone and dispatches no
\* readystatechange.
C21_AbortIdempotent ==
    [][ (lastOp.op = "abort" /\ lastOp'.op = "abort") =>
            /\ AbortedFields(xhr') = AbortedFields(xhr)
            /\ timers' = timers
            /\ \A i \in DOMAIN lastOp'.events :
                  lastOp'.events[i].event # "readystatechange" ]_vars

\* an abort() on the state an abort() left: only abort() leaves UNSENT with
\* errorFlag true
C21_Witness ==
    /\ lastOp.op = "abort"
    /\ lastOp.before.xhr.readyState = UNSENT
    /\ lastOp.before.xhr.errorFlag
    /\ lastOp.before.xhr.status = 0

\* the default header table as the class declares it
FixedDefaultHeaders ==
    [name \in {"User-Agent", "Accept"} |->
        IF name = "User-Agent" THEN "node-XMLHttpRequest" ELSE "*/*"]

\* C22: after abort(), and so after every open(), the request headers are
\* the fixed default table {User-Agent: node-XMLHttpRequest, Accept: */*},
\* with nothing left of what setRequestHeader or send() added in an earlier
\* transaction; and no operation changes the default table itself.
C22_HeadersResetToDefaults ==
    /\ lastOp.op \in {"abort", "open"} => Headers(xhr) = FixedDefaultHeaders
    /\ xhr.defaultHeaders = FixedDefaultHeaders

\* the readystatechange notifications of the last operation that showed
\* the readyState the previous observation showed, LOADING excepted
UnchangedNotifications ==
    {i \in DOMAIN lastOp.events :
        /\ lastOp.events[i].event = "readystatechange"
        /\ lastOp.events[i].readyState # LOADING
        /\ lastOp.events[i].readyState = SeenStates[i]}

\* C23 as stated: a readystatechange is dispatched only when readyState
\* has just changed to a different value or the new state is LOADING; no
\* operation dispatches one while readyState keeps the same value.
C23_NotifiesOnlyOnChange ==
    UnchangedNotifications = {}

\* C23 amended: the readystatechange notifications that #setState
\* dispatches come only with a readyState that has just changed (or with
\* LOADING); the one other readystatechange is the one a send() that
\* returns dispatches, with readyState still OPENED.
C23_NotifiesOnChangeOrSend ==
    IF lastOp.op = "send" /\ ~lastOp.threw
    THEN UnchangedNotifications = {1} /\ lastOp.events[1].readyState = OPENED
    ELSE UnchangedNotifications = {}

\* a send() that returned, on an object that completed a request before
C23_Witness ==
    /\ lastOp.op = "send"
    /\ ~lastOp.threw
    /\ UnchangedNotifications = {1}
    /\ history.statusCause = "response"

\* the events of the last operation other than loadstart, in order
EventsButLoadstart ==
    LET pick[i \in 0..Len(lastOp.events)] ==
            IF i = 0 THEN <<>>
            ELSE IF lastOp.events[i].event = "loadstart" THEN pick[i - 1]
                 ELSE Append(pick[i - 1], lastOp.events[i])
    IN  pick[Len(lastOp.events)]

\* C24: for a sent request that completes successfully without abort, the
\* notifications come in the order readystatechange with HEADERS_RECEIVED,
\* readystatechange with LOADING, readystatechange with DONE, load,
\* loadend, the last two right after the DONE notification; and sendFlag
\* is false once the completion has been processed.
C24_CompletionOrder ==
    (lastOp.op = "notification" /\ lastOp.notification = "value") =>
        /\ EventsButLoadstart =
              <<[event |-> "readystatechange", readyState |-> HEADERS_RECEIVED],
                [event |-> "readystatechange", readyState |-> LOADING],
                [event |-> "readystatechange", readyState |-> DONE],
                [event |-> "load", readyState |-> DONE],
                [event |-> "loadend", readyState |-> DONE]>>
        /\ SubSeq(lastOp.events, Len(lastOp.events) - 2, Len(lastOp.events)) =
              <<[event |-> "readystatechange", readyState |-> DONE],
                [event |-> "load", readyState |-> DONE],
                [event |-> "loadend", readyState |-> DONE]>>
        /\ ~xhr.sendFlag
        /\ xhr.readyState = DONE

C24_Witness ==
    /\ lastOp.op = "notification"
    /\ lastOp.notification = "value"
    /\ lastOp.before.xhr.sendFlag
    /\ xhr.status = 201
    /\ Len(lastOp.events) >= 5

\* the notification the last timer run delivered
DeliveredNotification == Head(lastOp.before.timers).notification

\* C25: when the transport reports a failure, status is 0, statusText the
\* error's message, responseText the error's stack (or the empty string),
\* errorFlag true and readyState DONE; exactly one readystatechange, seen
\* at DONE, is dispatched, then exactly one error notification, and no
\* load or loadend notification.
C25_TransportError ==
    (lastOp.op = "notification" /\ lastOp.notification = "reason") =>
        /\ xhr.status = 0
        /\ xhr.statusText = DeliveredNotification.message
        /\ xhr.responseText = IF Truthy(DeliveredNotification.stack)
                              THEN DeliveredNotification.stack ELSE ""
        /\ xhr.errorFlag
        /\ xhr.readyState = DONE
        /\ lastOp.events = <<[event |-> "readystatechange", readyState |-> DONE],
                             [event |-> "error", readyState |-> DONE]>>

C25_Witness ==
    /\ lastOp.op = "notification"
    /\ lastOp.notification = "reason"
    /\ lastOp.before.xhr.readyState = OPENED
    /\ ~lastOp.before.xhr.errorFlag
    /\ xhr.statusText # ""

\* how often the receiver of call c has been called
TimesReceived(c) ==
    Cardinality({i \in DOMAIN transport.received :
                    transport.received[i].id = transport.calls[c].cancel})

\* the notification of call c is still waiting in the timer queue
Pending(c) ==
    \E i \in DOMAIN timers : timers[i].id = transport.calls[c].cancel

\* what C26 says of every state, for every call made so far
ReceiverOnceUnlessCancelled ==
    \A c \in DOMAIN transport.calls :
        /\ TimesReceived(c) <= 1
        /\ transport.calls[c].cancelledPending => TimesReceived(c) = 0 /\ ~Pending(c)
        /\ ~transport.calls[c].cancelledPending =>
              (TimesReceived(c) = 1) # Pending(c)

\* what C26 says of every call of a cancel function
CancelOnlyUnqueues ==
    (transport'.step.kind = "cancel" /\ transport' # transport) =>
        /\ transport'.received = transport.received
        /\ timers' = SelectSeq(timers,
                        LAMBDA t : t.id # transport.calls[transport'.step.call].cancel)
        /\ transport.calls[transport'.step.call].cancels > 0 => timers' = timers

\* C26: a call of the transport invokes its receiver exactly once if the
\* cancel function it returned is never called before the notification
\* fires (the notification waits in the timer queue until it is run), and
\* never if cancel is called before it fires; a call of cancel leaves what
\* the receiver was called with alone and takes nothing from the timer
\* queue but its own call's pending notification, and a repeated call of
\* cancel, before or after the notification, changes nothing.
C26_ReceiverOnceUnlessCancelled ==
    /\ []ReceiverOnceUnlessCancelled
    /\ [][CancelOnlyUnqueues]_vars

C26_Witness ==
    /\ Len(transport.calls) = 2
    /\ transport.calls[1].cancelledPending
    /\ transport.calls[1].cancels = 2
    /\ ~transport.calls[2].cancelledPending
    /\ TimesReceived(2) = 1
    /\ transport.step.kind = "timer"

\* what C27 says of every step
ReceiverCalledLater ==
    /\ (transport'.step.kind = "request" /\ transport' # transport) =>
          /\ transport'.received = transport.received
          /\ timers' = Append(timers,
                [id |-> transport'.calls[transport'.step.call].cancel,
                 notification |-> notificationOf(transport'.step.entry,
                                                 transport'.step.options)])
    /\ transport'.received # transport.received =>
          /\ transport'.step.kind = "timer"
          /\ timers # <<>>
          /\ transport'.received = Append(transport.received,
                [id |-> Head(timers).id, notification |-> Head(timers).notification])

\* C27: the transport never calls its receiver inside the call that starts
\* the request: whether the route answers, is unknown, or its handler
\* throws, the call returns with the notification queued as a timer and
\* the receiver not called; the receiver is called only when the timer
\* queue later runs that timer.
C27_NeverInsideTheCall ==
    [][ReceiverCalledLater]_vars

\* a call whose handler threw has returned, the receiver not yet called
C27_Witness ==
    /\ transport.step.kind = "request"
    /\ transport.step.options.host = RoutedHost
    /\ transport.step.options.body = ""
    /\ ~timers[Len(timers)].notification.isValue
    /\ TimesReceived(transport.step.call) = 0
    /\ Pending(transport.step.call)

\* the port a request is for: the one given, else the protocol's default
RequestedPort(options, protocol) ==
    IF Truthy(options.port) THEN options.port
    ELSE IF protocol = "https" THEN "443" ELSE "80"

\* the protocol of a call: the entry point's, or the one given to doRequest
RequestedProtocol(entry, options) ==
    CASE entry = "doRequestHttp" -> "http"
      [] entry = "doRequestHttps" -> "https"
      [] entry = "doRequest" -> options.protocol

\* the route table has an entry for exactly this host and port
HasRoute(host, port) ==
    host \in DOMAIN mockServerConfig /\ port \in DOMAIN mockServerConfig[host]

\* the entry of (host, port) disables the protocol
Disables(host, port, protocol) ==
    (IF protocol = "https" THEN mockServerConfig[host][port].https
     ELSE mockServerConfig[host][port].http) = "false"

\* the notification the last call queued
QueuedNotification == timers[Len(timers)].notification

\* C28: the backend routes by (hostname, port): a request for host H, port
\* P, protocol Q and method M is answered by the handler registered for M
\* in the route-table entry of exactly (H, P) whenever that entry does not
\* disable Q; an http GET to cheese.com/api on port 80 completes with
\* status 200 and body {"cheese":"gruyere"}.
C28_RoutesByHostAndPort ==
    transport.step.kind = "request" =>
        \A protocol \in {RequestedProtocol(transport.step.entry, transport.step.options)} :
        \A port \in {RequestedPort(transport.step.options, protocol)} :
        \A host \in {transport.step.options.host} :
        \A method \in {transport.step.options.method} :
            ( /\ HasRoute(host, port)
              /\ ~Disables(host, port, protocol)
              /\ method \in mockServerConfig[host][port].methods ) =>
                /\ QueuedNotification.isValue
                      = ~handlerResult(port, method, transport.step.options.body).threw
                /\ QueuedNotification.isValue =>
                      /\ QueuedNotification.status
                           = handlerResult(port, method, transport.step.options.body).result.status
                      /\ QueuedNotification.responseText
                           = handlerResult(port, method, transport.step.options.body).result.responseText

\* C29: a request to a host or a (host, port) pair without an entry in
\* the route table, like one whose protocol the entry disables or whose
\* method has no handler on the entry, completes with a success
\* notification {value} of status 404 whose body is a JSON object with an
\* error field; it is never reported as a {reason} failure.
C29_UnroutedIs404 ==
    transport.step.kind = "request" =>
        \A protocol \in {RequestedProtocol(transport.step.entry, transport.step.options)} :
        \A port \in {RequestedPort(transport.step.options, protocol)} :
        \A host \in {transport.step.options.host} :
            ( \/ ~HasRoute(host, port)
              \/ Disables(host, port, protocol)
              \/ transport.step.options.method \notin mockServerConfig[host][port].methods ) =>
                /\ QueuedNotification.isValue
                /\ QueuedNotification.status = 404
                /\ \E error \in {"protocol not supported", "HTTP method not supported",
                                 "not found"} :
                      QueuedNotification.responseText = failureBoilerplate(error).responseText

\* the names getResponseHeader is asked for: the header the backend sends
\* in two spellings, one it never sends, and a value that is no string
ResponseHeaderNames ==
    {JsString("Content-Type"), JsString("content-type"), JsString("X-A"), JsUndefined}

C31_DefaultCancellorAborts ==
    ( /\ lastOp.op = "cancel"
      /\ requestor.cancellor = "default"
      /\ lastOp.before.timers # <<>> ) =>
        /\ timers = <<>>
        /\ xhr.readyState = UNSENT
        /\ ~xhr.sendFlag

\* C32: when a custom cancellor that calls the abortRequest it was handed
\* (and not tryReceiver) is called after send and before the response
\* arrives, the requestor's receiver is never invoked: not during the call
\* of the cancellor, and not when the timer queue later runs.
C32_AbortDeliversNothing ==
    requestor.cancellor = "callsAbort" =>
        /\ (lastOp.op = "cancel" /\ lastOp.before.timers # <<>>) =>
              /\ Len(sw.calls) = lastOp.before.calls
              /\ timers = <<>>
        /\ (lastOp.op = "notification" /\ requestor.cancels > 0) =>
              Len(sw.calls) = lastOp.before.calls

\* the Result the settled promise stands for
SettledResult ==
    IF promise.state = "fulfilled" THEN Result(promise.outcome, Undefined)
    ELSE Result(Undefined, promise.outcome)

\* how often invocation inv of the promise requestor called its receiver
TimesDelivered(inv) ==
    Cardinality({i \in DOMAIN promise.received : promise.received[i].inv = inv})

\* C33: a requestor made by usePromise invokes its receiver exactly once
\* per invocation once the promise has settled (and its reactions have
\* run): with {value: v} if it fulfilled with v, with {reason: r} if it
\* rejected with r or was cancelled; it never invokes the receiver a second
\* time, whatever the receiver does, and never delivers anything but the
\* settled value or reason.
C33_PromiseDeliversOnce ==
    /\ \A inv \in 1..promise.invocations : TimesDelivered(inv) <= 1
    /\ \A i \in DOMAIN promise.received : promise.received[i].result = SettledResult
    /\ (promise.state # "pending" /\ promise.jobs = <<>>) =>
          \A inv \in 1..promise.invocations : TimesDelivered(inv) = 1

\* the status a response notification sets: value.status || null
ResponseStatus(n) == IF n.status = 0 THEN NullStatus ELSE n.status

AbortEventAt ==
    IF \E i \in DOMAIN lastOp.events : lastOp.events[i].event = "abort"
    THEN CHOOSE i \in DOMAIN lastOp.events : lastOp.events[i].event = "abort"
    ELSE 0

CallerValue(name) ==
    LET calls == history.headerCalls
        join[i \in 0..Len(calls)] ==
            IF i = 0 THEN <<>>
            ELSE IF toLowerCase(calls[i].header) # toLowerCase(name) THEN join[i - 1]
                 ELSE IF join[i - 1] = <<>> THEN <<calls[i].value>>
                      ELSE <<join[i - 1][1] \o ", " \o calls[i].value>>
    IN  join[Len(calls)]

\* the headers the last send() handed to the transport
SentHeaders == timers[Len(timers)].options.headers

\* C36: the headers send() hands to the transport hold, for each default
\* header name (User-Agent, Accept), the default value only if the caller
\* set no header of that name, in any casing, during this transaction; a
\* header the caller set is sent with exactly the caller's value, neither
\* merged with the default nor accompanied by it.
C36_DefaultsOnlyWhenUnset ==
    (lastOp.op = "send" /\ ~lastOp.threw) =>
        \A default \in {"User-Agent", "Accept"} :
            IF CallerValue(default) = <<>>
            THEN /\ default \in DOMAIN SentHeaders
                 /\ SentHeaders[default] = FixedDefaultHeaders[default]
            ELSE \A name \in DOMAIN SentHeaders :
                    toLowerCase(name) = toLowerCase(default) =>
                        SentHeaders[name] = CallerValue(default)[1]

\* the request header set and what setRequestHeader keeps beside it
HeaderSet(x) == <<Headers(x), x.headersCase, x.defaultHeaders>>

\* C37: setRequestHeader changes the request header set only when
\* readyState = OPENED, sendFlag = false and the name is not on the
\* forbidden list (compared without regard to case); whenever it throws or
\* the name is forbidden, the header set is exactly as it was.
C37_SetRequestHeaderFrame ==
    lastOp.op = "setRequestHeader" =>
        /\ HeaderSet(xhr) # HeaderSet(lastOp.before.xhr) =>
              /\ lastOp.before.xhr.readyState = OPENED
              /\ ~lastOp.before.xhr.sendFlag
              /\ FoldedName(lastOp.header) \notin forbiddenRequestHeaders
        /\ (lastOp.threw \/ FoldedName(lastOp.header) \in forbiddenRequestHeaders) =>
              HeaderSet(xhr) = HeaderSet(lastOp.before.xhr)

\* a forbidden name in another casing, refused on an object that would
\* have taken an allowed header
C37_Witness ==
    /\ lastOp.op = "setRequestHeader"
    /\ lastOp.header = "COOKIE"
    /\ lastOp.before.xhr.readyState = OPENED
    /\ ~lastOp.before.xhr.sendFlag
    /\ ~lastOp.threw
    /\ Headers(xhr) = Headers(lastOp.before.xhr)

\* C38: for each send() that returned, under any interleaving of the
\* transport's success, the transport's error and abort() / open(), at
\* most one readystatechange with readyState = DONE is dispatched, and
\* load and error are never both fired.
C38_OneTerminalNotification ==
    /\ history.done <= 1
    /\ ~(history.load > 0 /\ history.error > 0)
    /\ history.load <= 1
    /\ history.error <= 1

\* the state errors setRequestHeader throws
SetRequestHeaderStateErrors ==
    {"INVALID_STATE_ERR: setRequestHeader can only be called when state is OPEN",
     "INVALID_STATE_ERR: send flag is true"}

\* C39: the request object is reusable after every terminal outcome: after
\* a request ended by success, by a transport error or by abort(), a new
\* open() followed by setRequestHeader() with an allowed name and by
\* send() all succeed without a state error.
C39_ReusableAfterTerminal ==
    ( /\ history.statusCause # "none"
      /\ lastOp.before.xhr.readyState = OPENED
      /\ history.sends = (IF lastOp.op = "send" /\ ~lastOp.threw THEN 1 ELSE 0) ) =>
        /\ (lastOp.op = "setRequestHeader"
            /\ FoldedName(lastOp.header) \notin forbiddenRequestHeaders) =>
              ~(lastOp.threw /\ lastOp.error \in SetRequestHeaderStateErrors)
        /\ lastOp.op = "send" =>
              ~(lastOp.threw /\ lastOp.error \in SendStateErrors)

\* the transport's notification for the last send() has been processed:
\* the object is at DONE and exactly one of load and error was dispatched
CompletedOnce ==
    /\ lastOp.op = "notification"
    /\ xhr.readyState = DONE
    /\ history.load + history.error = 1

\* C40: under fair scheduling of the timer queue, every send() that
\* returned and is not followed by abort() or open() eventually brings the
\* object to readyState = DONE and dispatches exactly one of load and error.
C40_SendEventuallyCompletes ==
    (lastOp.op = "send" /\ ~lastOp.threw)
        ~> (CompletedOnce \/ lastOp.op \in {"abort", "open"})

\* the completion of a request the transport failed
C40_Witness ==
    /\ CompletedOnce
    /\ history.error = 1
    /\ history.sends = 1
    /\ timers = <<>>

====
